---------------------------- MODULE Spec2Model ----------------------------
(***************************************************************************)
(* EcoFlow: road congestion, zone aggregation and traffic-light simulation *)
(*                                                                         *)
(*   src/extract_roads_zones.py  grid of zones, road -> zone assignment    *)
(*   src/process.py              predict, clip, aggregate, write 2 tables  *)
(*   src/app.py                  cached load, refresh, render/tick loop    *)
(*                                                                         *)
(* Congestion values are rationals c / CongScale held as the integer c.    *)
(***************************************************************************)
EXTENDS Integers, Sequences, FiniteSets, TLC

VARIABLES
    \* ---- app.py render loop of one road row, one entry per app process
    rowId,      \* row['id'] of the road row that is rendered
    rowCong,    \* row['congestion'] of that row
    strHash,    \* per process: <<hash(row['id'])>> in this interpreter, or NoHash
    tick,       \* per process: the loop's tick counter (app.py:196, 237)
    hist,       \* per process: the light states rendered so far, oldest first
    \* ---- extract_roads_zones.py main()
    epc,            \* position in main()
    road_rows,      \* the rows parsed from the OSM files, concatenated
    roads_master,   \* rows after drop_duplicates
    num_cells,      \* <<num_cells_x, num_cells_y>>
    bbox,           \* <<minx, miny, maxx, maxy>> after the buffer
    x_grid, y_grid, \* np.linspace results
    ij,             \* <<i, j>> of the zone loops
    zones,          \* list of zones built so far
    zones_proj,     \* zones_gdf.to_crs(32643)
    roads_proj,     \* roads_master.to_crs(32643) with centroid and zone_id
    master_files,   \* <<master_roads.gpkg, master_zones.gpkg>> once saved
    \* ---- process.py main(), one run at a time per launcher
    rpc,            \* per launcher: position of its process.py run
    mem,            \* per launcher: the run's roads_gdf / zones_gdf, or <<>>
    runs,           \* number of process.py runs launched so far
    roads_file,     \* roads_with_congestion.gpkg, or <<>> when absent
    zones_file,     \* zones_with_congestion.gpkg, or <<>> when absent
    lastGood,       \* number of the latest run that exited with status 0
    \* ---- app.py: the script runs of the browser sessions of one server
    pc,             \* per session: position of its script run
    btn,            \* per session: this script run was started by the button
    loaded,         \* per session: 'congestion_loaded' in st.session_state
    launched,       \* per session: predictions it has started so far
    status,         \* per session: outcome of its latest prediction call
    data,           \* per session: zones_gdf / roads_gdf of the script run
    rd,             \* per session: what load_data() has read so far
    cache,          \* the st.cache_data entry of load_data(), or <<>>
    lock,           \* the session computing load_data(), or 0
    frame           \* per session: runs whose values the last frame showed

lightVars == <<rowId, rowCong, strHash, tick, hist>>

extractVars == <<epc, road_rows, roads_master, num_cells, bbox, x_grid, y_grid,
                 ij, zones, zones_proj, roads_proj, master_files>>

refreshVars == <<rpc, mem, runs, roads_file, zones_file, lastGood>>

appVars == <<pc, btn, loaded, launched, status, data, rd, cache, lock, frame>>

vars == <<lightVars, extractVars, refreshVars, appVars>>

-----------------------------------------------------------------------------
(* Bounds of the model *)

CongScale == 10     \* congestion resolution: the value c stands for c / CongScale
HashBound == 12     \* str hashes are drawn from -HashBound .. HashBound - 1
MaxTick == 26       \* iterations of one render loop that are explored
MaxRunTick == 2     \* iterations explored when two app processes run side by side
MaxCoord == 1       \* road nodes lie on the lattice 0 .. MaxCoord in both axes
MaxCells == 2       \* num_cells_x and num_cells_y range over 1 .. MaxCells
MaxCycles == 1      \* process.py runs explored when it runs on its own
MaxLaunch == 2      \* predictions one app session may start

(* Program constants *)

cycle_length == 12  \* app.py:129 (and the default of phase_offset, app.py:124)
HighNum == 7        \* app.py:131   congestion > 0.7
LowNum == 3         \* app.py:138   congestion > 0.3
ThreshDen == 10     \* denominator of the two literals above

-----------------------------------------------------------------------------
(* extract_roads_zones.py: grid, zones, road -> zone assignment            *)
(*                                                                         *)
(* A coordinate is a rational held as its numerator over CoordDen.  One    *)
(* lattice unit of the inputs is 0.01 degree, the size of the buffer.      *)

RECURSIVE Fact(_)
Fact(n) == IF n <= 1 THEN 1 ELSE n * Fact(n - 1)

\* every k / (2 * n), n <= MaxCells, is a whole number of 1 / CoordDen
CoordDen == 2 * Fact(MaxCells)

None == "None"      \* Python's None in a zone_id column
RowIds == {"w101", "w102"}  \* OSM way ids, strings (extract_roads_zones.py:22)

LatticePts == {<<x, y>> : x \in 0 .. MaxCoord, y \in 0 .. MaxCoord}
LexLeq(p, q) == p[1] < q[1] \/ (p[1] = q[1] /\ p[2] <= q[2])
Geo(p) == <<p[1] * CoordDen, p[2] * CoordDen>>
\* LineStrings of two nodes (extract_roads_zones.py:20-21)
Paths == {<<Geo(p), Geo(q)>> : <<p, q>> \in {pq \in LatticePts \X LatticePts : LexLeq(pq[1], pq[2])}}

ExtractIdle ==
    /\ epc = "idle"
    /\ road_rows = <<>>
    /\ roads_master = <<>>
    /\ num_cells = <<0, 0>>
    /\ bbox = <<0, 0, 0, 0>>
    /\ x_grid = <<>>
    /\ y_grid = <<>>
    /\ ij = <<0, 0>>
    /\ zones = <<>>
    /\ zones_proj = <<>>
    /\ roads_proj = <<>>
    /\ master_files = <<>>

\* DataFrame.drop_duplicates(subset=[col]): the first row of each key stays.
RECURSIVE drop_duplicates(_, _)
drop_duplicates(rows, col) ==
    IF rows = <<>> THEN <<>>
    ELSE LET n == Len(rows)
             front == drop_duplicates(SubSeq(rows, 1, n - 1), col)
         IN  IF \E k \in 1 .. n - 1 : rows[k][col] = rows[n][col]
             THEN front ELSE Append(front, rows[n])

SetMin(S) == CHOOSE m \in S : \A x \in S : m <= x
SetMax(S) == CHOOSE m \in S : \A x \in S : m >= x

\* GeoDataFrame.total_bounds over every vertex of every geometry
total_bounds(rows) ==
    LET xs == {rows[k].geometry[v][1] : k \in 1 .. Len(rows), v \in 1 .. 2}
        ys == {rows[k].geometry[v][2] : k \in 1 .. Len(rows), v \in 1 .. 2}
    IN  <<SetMin(xs), SetMin(ys), SetMax(xs), SetMax(ys)>>

\* extract_roads_zones.py:60   buffer = 0.01 degree = one lattice unit
buffer == CoordDen

linspace_NoEndpoint(start, stop, num) ==
    [k \in 1 .. num |-> start + ((k - 1) * (stop - start)) \div num]

\* np.linspace(start, stop, num), num >= 2: num evenly spaced samples, the
\* last one is stop itself.
linspace(start, stop, num) ==
    [k \in 1 .. num |->
        IF k = num THEN stop
        ELSE start + ((k - 1) * (stop - start)) \div (num - 1)]

\* f'z{i}_{j}'  (extract_roads_zones.py:78)
ZoneId(i, j) == "z" \o ToString(i) \o "_" \o ToString(j)

\* to_crs(epsg=32643), extract_roads_zones.py:83-84: the transverse Mercator
\* map linearised over the region: a scaling of both axes with the small
\* rotation of the meridian convergence, and the false easting.  It maps
\* vertices; straight edges join the mapped vertices.
Proj(p) == <<9 * p[1] + p[2] + 500 * CoordDen, 11 * p[2] - p[1]>>

ProjGeom(g) == [v \in 1 .. Len(g) |-> Proj(g[v])]

\* shapely centroid of a two-node LineString: the midpoint
Centroid(g) == <<(g[1][1] + g[2][1]) \div 2, (g[1][2] + g[2][2]) \div 2>>

Cross(a, b, p) == (b[1] - a[1]) * (p[2] - a[2]) - (b[2] - a[2]) * (p[1] - a[1])

EdgeSides(poly, p) ==
    {Cross(poly[k], poly[(k % Len(poly)) + 1], p) : k \in 1 .. Len(poly)}

\* shapely Polygon.contains(Point) for a convex ring: true for a point of
\* the interior, false for a point of the boundary or the exterior.
Contains(poly, p) ==
    \/ \A c \in EdgeSides(poly, p) : c > 0
    \/ \A c \in EdgeSides(poly, p) : c < 0

RECURSIVE assign_zone_last(_, _)
assign_zone_last(point, zones_gdf) ==
    IF zones_gdf = <<>> THEN None
    ELSE LET n == Len(zones_gdf)
         IN  IF Contains(zones_gdf[n].geometry, point) THEN zones_gdf[n].zone_id
             ELSE assign_zone_last(point, SubSeq(zones_gdf, 1, n - 1))

\* extract_roads_zones.py:31-35
RECURSIVE assign_zone_from(_, _, _)
assign_zone_from(point, zones_gdf, k) ==
    IF k > Len(zones_gdf) THEN None
    ELSE IF Contains(zones_gdf[k].geometry, point) THEN zones_gdf[k].zone_id
    ELSE assign_zone_from(point, zones_gdf, k + 1)

assign_zone(point, zones_gdf) == assign_zone_from(point, zones_gdf, 1)

AppIdle ==
    /\ pc = <<>>
    /\ btn = <<>>
    /\ loaded = <<>>
    /\ launched = <<>>
    /\ status = <<>>
    /\ data = <<>>
    /\ rd = <<>>
    /\ cache = <<>>
    /\ lock = 0
    /\ frame = <<>>

RefreshIdle ==
    /\ AppIdle
    /\ rpc = <<>>
    /\ mem = <<>>
    /\ runs = 0
    /\ roads_file = <<>>
    /\ zones_file = <<>>
    /\ lastGood = 0

LightIdle ==
    /\ rowId = "w101"
    /\ rowCong = 0
    /\ strHash = <<>>
    /\ tick = <<>>
    /\ hist = <<>>

ExtractInit ==
    /\ epc = "parsed"
    /\ \E g1 \in Paths, g2 \in Paths, id2 \in RowIds :
           road_rows = << [id |-> "w101", geometry |-> g1],
                          [id |-> id2, geometry |-> g2] >>
    /\ num_cells \in (1 .. MaxCells) \X (1 .. MaxCells)
    /\ LightIdle
    /\ RefreshIdle
    /\ roads_master = <<>>
    /\ bbox = <<0, 0, 0, 0>>
    /\ x_grid = <<>>
    /\ y_grid = <<>>
    /\ ij = <<0, 0>>
    /\ zones = <<>>
    /\ zones_proj = <<>>
    /\ roads_proj = <<>>
    /\ master_files = <<>>

\* extract_roads_zones.py:50-56
Combine ==
    /\ epc = "parsed"
    /\ roads_master' = drop_duplicates(drop_duplicates(road_rows, "id"), "geometry")
    /\ epc' = "combined"
    /\ UNCHANGED <<road_rows, num_cells, bbox, x_grid, y_grid, ij, zones,
                   zones_proj, roads_proj, master_files>>
    /\ UNCHANGED <<lightVars, refreshVars, appVars>>

\* extract_roads_zones.py:59-68
MakeGrid ==
    /\ epc = "combined"
    /\ LET tb == total_bounds(roads_master)
           minx == tb[1] - buffer
           miny == tb[2] - buffer
           maxx == tb[3] + buffer
           maxy == tb[4] + buffer
       IN  /\ bbox' = <<minx, miny, maxx, maxy>>
           /\ x_grid' = linspace(minx, maxx, num_cells[1] + 1)
           /\ y_grid' = linspace(miny, maxy, num_cells[2] + 1)
    /\ zones' = <<>>
    /\ ij' = <<0, 0>>
    /\ epc' = "zones"
    /\ UNCHANGED <<road_rows, roads_master, num_cells, zones_proj, roads_proj,
                   master_files>>
    /\ UNCHANGED <<lightVars, refreshVars, appVars>>

\* One pass of the inner loop body, extract_roads_zones.py:69-78.  Grids
\* are 0-based in the source and 1-based here.
ZoneStep ==
    /\ epc = "zones"
    /\ ij[1] < num_cells[1]
    /\ LET i == ij[1]
           j == ij[2]
           coords == << <<x_grid[i + 1], y_grid[j + 1]>>,
                        <<x_grid[i + 2], y_grid[j + 1]>>,
                        <<x_grid[i + 2], y_grid[j + 2]>>,
                        <<x_grid[i + 1], y_grid[j + 2]>> >>
       IN  /\ zones' = Append(zones, [zone_id |-> ZoneId(i, j), geometry |-> coords])
           /\ ij' = IF j + 1 < num_cells[2] THEN <<i, j + 1>> ELSE <<i + 1, 0>>
    /\ UNCHANGED <<epc, road_rows, roads_master, num_cells, bbox, x_grid, y_grid,
                   zones_proj, roads_proj, master_files>>
    /\ UNCHANGED <<lightVars, refreshVars, appVars>>

\* extract_roads_zones.py:80-87
Project ==
    /\ epc = "zones"
    /\ ij[1] >= num_cells[1]
    /\ zones_proj' = [k \in 1 .. Len(zones) |->
                         [zone_id |-> zones[k].zone_id,
                          geometry |-> ProjGeom(zones[k].geometry)]]
    /\ roads_proj' = [k \in 1 .. Len(roads_master) |->
                         [id |-> roads_master[k].id,
                          geometry |-> ProjGeom(roads_master[k].geometry),
                          centroid |-> Centroid(ProjGeom(roads_master[k].geometry)),
                          assigned |-> FALSE,
                          zone_id |-> None]]
    /\ epc' = "assign"
    /\ UNCHANGED <<road_rows, roads_master, num_cells, bbox, x_grid, y_grid, ij,
                   zones, master_files>>
    /\ UNCHANGED <<lightVars, refreshVars, appVars>>

\* One application of the lambda of extract_roads_zones.py:90, rows in order.
AssignStep ==
    /\ epc = "assign"
    /\ \E k \in 1 .. Len(roads_proj) :
        /\ ~roads_proj[k].assigned
        /\ \A m \in 1 .. k - 1 : roads_proj[m].assigned
        /\ roads_proj' = [roads_proj EXCEPT
               ![k].zone_id = assign_zone(roads_proj[k].centroid, zones_proj),
               ![k].assigned = TRUE]
    /\ UNCHANGED <<epc, road_rows, roads_master, num_cells, bbox, x_grid, y_grid,
                   ij, zones, zones_proj, master_files>>
    /\ UNCHANGED <<lightVars, refreshVars, appVars>>

\* extract_roads_zones.py:92-101.  The way back to EPSG:4326 is taken as the
\* exact inverse of Proj: the saved rows carry the geographic geometry.
Save ==
    /\ epc = "assign"
    /\ \A k \in 1 .. Len(roads_proj) : roads_proj[k].assigned
    /\ master_files' =
         << [k \in 1 .. Len(roads_proj) |->
                [id |-> roads_proj[k].id,
                 geometry |-> roads_master[k].geometry,
                 zone_id |-> roads_proj[k].zone_id]],
            zones >>
    /\ epc' = "done"
    /\ UNCHANGED <<road_rows, roads_master, num_cells, bbox, x_grid, y_grid, ij,
                   zones, zones_proj, roads_proj>>
    /\ UNCHANGED <<lightVars, refreshVars, appVars>>

NextExtract ==
    \/ Combine
    \/ MakeGrid
    \/ ZoneStep
    \/ Project
    \/ AssignStep
    \/ Save

SpecExtract == ExtractInit /\ [][NextExtract]_vars

\* assign_zone as a function of any zone sequence: main() stopped before
\* line 90 with one road and two rectangular zones that may overlap, besides
\* the states main() itself reaches.
Intervals == {lh \in (0 .. MaxCoord + 1) \X (0 .. MaxCoord + 1) : lh[1] < lh[2]}
Rect(xs, ys) ==
    << Geo(<<xs[1], ys[1]>>), Geo(<<xs[2], ys[1]>>),
       Geo(<<xs[2], ys[2]>>), Geo(<<xs[1], ys[2]>>) >>

AssignInit ==
    \/ ExtractInit
    \/ /\ epc = "assign"
       /\ LightIdle
       /\ RefreshIdle
       /\ \E g \in Paths :
              /\ road_rows = << [id |-> "w101", geometry |-> g] >>
              /\ roads_master = road_rows
              /\ roads_proj = << [id |-> "w101",
                                 geometry |-> ProjGeom(g),
                                 centroid |-> Centroid(ProjGeom(g)),
                                 assigned |-> FALSE,
                                 zone_id |-> None] >>
       /\ \E xa \in Intervals, ya \in Intervals, xb \in Intervals, yb \in Intervals :
              /\ zones = << [zone_id |-> ZoneId(0, 0), geometry |-> Rect(xa, ya)],
                            [zone_id |-> ZoneId(0, 1), geometry |-> Rect(xb, yb)] >>
              /\ zones_proj = [k \in 1 .. 2 |->
                                  [zone_id |-> zones[k].zone_id,
                                   geometry |-> ProjGeom(zones[k].geometry)]]
       /\ num_cells = <<0, 0>>
       /\ bbox = <<0, 0, 0, 0>>
       /\ x_grid = <<>>
       /\ y_grid = <<>>
       /\ ij = <<0, 0>>
       /\ master_files = <<>>

SpecAssign == AssignInit /\ [][NextExtract]_vars

-----------------------------------------------------------------------------
(* Claims about the grid and the assignment *)

ZonesDone ==
    \/ epc = "zones" /\ ij[1] >= num_cells[1]
    \/ epc \in {"assign", "done"}

X0(z) == SetMin({z.geometry[v][1] : v \in 1 .. 4})
X1(z) == SetMax({z.geometry[v][1] : v \in 1 .. 4})
Y0(z) == SetMin({z.geometry[v][2] : v \in 1 .. 4})
Y1(z) == SetMax({z.geometry[v][2] : v \in 1 .. 4})

RECURSIVE AreaSum(_)
AreaSum(zs) ==
    IF zs = <<>> THEN 0
    ELSE (X1(Head(zs)) - X0(Head(zs))) * (Y1(Head(zs)) - Y0(Head(zs))) + AreaSum(Tail(zs))

InteriorsDisjoint(a, b) ==
    \/ X1(a) <= X0(b)
    \/ X1(b) <= X0(a)
    \/ Y1(a) <= Y0(b)
    \/ Y1(b) <= Y0(a)

\* C6: once the zone loops are over there are nx*ny zones, zone (i, j) at
\* place i*ny + j with id "z{i}_{j}" and the cell [x_i, x_i+1] x [y_j, y_j+1]
\* of the linear subdivision of the expanded bounding box; the zones lie in
\* the box, no two overlap inside, and their areas add up to the box's area
\* (so their union is the whole box).
C6_Partition ==
    ZonesDone =>
        LET nx == num_cells[1]
            ny == num_cells[2]
            W == bbox[3] - bbox[1]
            H == bbox[4] - bbox[2]
        IN  /\ W > 0 /\ H > 0
            /\ Len(zones) = nx * ny
            /\ \A i \in 0 .. nx - 1 : \A j \in 0 .. ny - 1 :
                   LET z == zones[i * ny + j + 1]
                   IN  /\ z.zone_id = "z" \o ToString(i) \o "_" \o ToString(j)
                       /\ nx * X0(z) = nx * bbox[1] + i * W
                       /\ nx * X1(z) = nx * bbox[1] + (i + 1) * W
                       /\ ny * Y0(z) = ny * bbox[2] + j * H
                       /\ ny * Y1(z) = ny * bbox[2] + (j + 1) * H
            /\ \A a \in 1 .. Len(zones) :
                   /\ bbox[1] <= X0(zones[a]) /\ X1(zones[a]) <= bbox[3]
                   /\ bbox[2] <= Y0(zones[a]) /\ Y1(zones[a]) <= bbox[4]
                   /\ \A b \in 1 .. Len(zones) :
                          a # b => InteriorsDisjoint(zones[a], zones[b])
            /\ AreaSum(zones) = W * H

\* C6 witness: a finished 2 x 2 grid, in the order z0_0, z0_1, z1_0, z1_1.
C6_Witness ==
    /\ epc = "done"
    /\ num_cells = <<2, 2>>
    /\ Len(zones) = 4
    /\ zones[2].zone_id = "z0_1"
    /\ zones[3].zone_id = "z1_0"
    /\ X0(zones[3]) = X1(zones[1])

\* p lies strictly on the inner side of every edge of the convex ring: on
\* the side of the ring's next vertex.
Interior(poly, p) ==
    \A k \in 1 .. 4 :
        LET a == poly[k]
            b == poly[(k % 4) + 1]
            c == poly[((k + 1) % 4) + 1]
        IN  \/ Cross(a, b, p) > 0 /\ Cross(a, b, c) > 0
            \/ Cross(a, b, p) < 0 /\ Cross(a, b, c) < 0

\* C7: an assigned road carries the id of the first zone, in generation
\* order, whose polygon contains its projected centroid, and None exactly
\* when no zone does; a non-null id is the id of a zone of the grid; and at
\* the end every road has been assigned, whatever the earlier results.
C7_FirstContaining ==
    /\ \A k \in 1 .. Len(roads_proj) :
           roads_proj[k].assigned =>
               LET hits == {m \in 1 .. Len(zones_proj) :
                               Interior(zones_proj[m].geometry, roads_proj[k].centroid)}
               IN  /\ hits = {} => roads_proj[k].zone_id = None
                   /\ hits # {} =>
                          roads_proj[k].zone_id = zones_proj[SetMin(hits)].zone_id
                   /\ roads_proj[k].zone_id # None =>
                          \E m \in 1 .. Len(zones) :
                              zones[m].zone_id = roads_proj[k].zone_id
    /\ epc = "done" =>
           /\ Len(master_files[1]) = Len(roads_master)
           /\ \A k \in 1 .. Len(roads_master) :
                  /\ roads_proj[k].assigned
                  /\ master_files[1][k].id = roads_master[k].id
                  /\ master_files[1][k].zone_id = roads_proj[k].zone_id

\* C7 witness: a saved run over two overlapping zones in which the first
\* road's centroid lies inside both zones and the road got the first one.
C7_Witness ==
    /\ epc = "done"
    /\ Len(zones_proj) = 2
    /\ \A m \in 1 .. 2 : Interior(zones_proj[m].geometry, roads_proj[1].centroid)
    /\ master_files[1][1].zone_id = zones_proj[1].zone_id

-----------------------------------------------------------------------------
(* process.py: predict, clip, aggregate, write the two tables              *)
(*                                                                         *)
(* A road congestion c stands for c / CongScale; a zone congestion m for   *)
(* m / (CongScale * MeanDen), so that every mean of road values is exact.  *)

Launchers == {1, 2}     \* who runs process.py: app session 1 or 2 (app.py:20)

RefreshRoads == <<"w101", "w102", "w103">>
MeanDen == Fact(Len(RefreshRoads))

\* what the LightGBM model may return for a road: below 0, inside, above 1
PredVals == {0 - 1, 2, 4, CongScale - 1, CongScale + 3}

FixedPath == <<Geo(<<0, 0>>), Geo(<<1, 1>>)>>

\* master_zones.gpkg / master_roads.gpkg as extract_roads_zones.py saves
\* them: three zones, and roads that lie in z0_0, in z0_1 or in no zone.
MasterZones ==
    [k \in 1 .. 3 |->
        [zone_id |-> <<ZoneId(0, 0), ZoneId(0, 1), ZoneId(1, 0)>>[k],
         geometry |-> Rect(<<0, 1>>, <<0, 1>>)]]

MasterRoadSets ==
    {[k \in 1 .. Len(RefreshRoads) |->
        [id |-> RefreshRoads[k], geometry |-> FixedPath, zone_id |-> zs[k]]] :
     zs \in {ZoneId(0, 0)} \X {ZoneId(0, 0), None} \X {ZoneId(0, 0), ZoneId(0, 1), None}}

clip_NoUpper(v, lo, hi) == IF v < lo THEN lo ELSE v

\* np.clip on one element
clip(v, lo, hi) == IF v < lo THEN lo ELSE IF v > hi THEN hi ELSE v

RECURSIVE SumCong(_)
SumCong(rows) ==
    IF rows = <<>> THEN 0 ELSE Head(rows).congestion + SumCong(Tail(rows))

InZone(rows, z) == SelectSeq(rows, LAMBDA r : r.zone_id = z)

groupby_mean_Sum(rows) ==
    [z \in {rows[k].zone_id : k \in 1 .. Len(rows)} \ {None} |->
        SumCong(InZone(rows, z)) * MeanDen]

\* roads_gdf.groupby('zone_id')['congestion'].mean(): one group per zone_id
\* that occurs, rows with a null key dropped (process.py:56)
groupby_mean(rows) ==
    [z \in {rows[k].zone_id : k \in 1 .. Len(rows)} \ {None} |->
        (SumCong(InZone(rows, z)) * MeanDen) \div Len(InZone(rows, z))]

\* zones_gdf.merge(zones_congestion, on='zone_id', how='left'): every zone
\* row once, its congestion <<m>> when a group matches and <<>> (NaN) when
\* none does (process.py:58)
merge_left(zone_rows, means) ==
    [k \in 1 .. Len(zone_rows) |->
        [zone_id |-> zone_rows[k].zone_id,
         geometry |-> zone_rows[k].geometry,
         congestion |-> IF zone_rows[k].zone_id \in DOMAIN means
                        THEN <<means[zone_rows[k].zone_id]>> ELSE <<>>]]

\* zones_gdf['congestion'].fillna(0)  (process.py:59)
fillna(zone_rows, v) ==
    [k \in 1 .. Len(zone_rows) |->
        [zone_rows[k] EXCEPT !.congestion = IF @ = <<>> THEN v ELSE @[1]]]

\* process.py:48-49
score(road_rows_in, pred) ==
    [k \in 1 .. Len(road_rows_in) |->
        [id |-> road_rows_in[k].id,
         geometry |-> road_rows_in[k].geometry,
         zone_id |-> road_rows_in[k].zone_id,
         congestion |-> clip(pred[k], 0, CongScale)]]

\* process.py:56-59
aggregate(road_rows_in, zone_rows) ==
    fillna(merge_left(zone_rows, groupby_mean(road_rows_in)), 0)

\* `python process.py <time>` is started; the run gets the next number.
Launch(p) ==
    /\ rpc[p] = "idle"
    /\ runs' = runs + 1
    /\ rpc' = [rpc EXCEPT ![p] = "started"]
    /\ mem' = [mem EXCEPT ![p] = [run |-> runs + 1]]

\* process.py:38-59: read the master tables, predict (pred is what the model
\* returns, one value per road), clip, aggregate.
\* master_roads.gpkg carries zone_id (extract_roads_zones.py:90), so the
\* sjoin of process.py:52-53 is not run.
Compute(p, pred) ==
    /\ rpc[p] = "started"
    /\ LET roads_gdf == score(master_files[1], pred)
           zones_gdf == aggregate(roads_gdf, master_files[2])
       IN  mem' = [mem EXCEPT ![p] = [run |-> @.run, pred |-> pred,
                                      roads |-> roads_gdf, zones |-> zones_gdf]]
    /\ rpc' = [rpc EXCEPT ![p] = "computed"]
    /\ UNCHANGED <<runs, roads_file, zones_file, lastGood>>
    /\ UNCHANGED <<lightVars, extractVars, appVars>>

\* process.py:62
WriteRoads(p) ==
    /\ rpc[p] = "computed"
    /\ roads_file' = [run |-> mem[p].run, rows |-> mem[p].roads]
    /\ rpc' = [rpc EXCEPT ![p] = "wrote_roads"]
    /\ UNCHANGED <<mem, runs, zones_file, lastGood>>
    /\ UNCHANGED <<lightVars, extractVars, appVars>>

\* process.py:63-65, and the exit with status 0
WriteZones(p) ==
    /\ rpc[p] = "wrote_roads"
    /\ zones_file' = [run |-> mem[p].run, rows |-> mem[p].zones]
    /\ rpc' = [rpc EXCEPT ![p] = "exit0"]
    /\ lastGood' = mem[p].run
    /\ UNCHANGED <<mem, runs, roads_file>>
    /\ UNCHANGED <<lightVars, extractVars, appVars>>

\* Any statement of main() may raise (a missing model file at process.py:42,
\* a failed write at process.py:62 or 63): the run exits with a status # 0
\* and whatever it wrote before stays on disk.
Fail(p) ==
    /\ rpc[p] \in {"started", "computed", "wrote_roads"}
    /\ rpc' = [rpc EXCEPT ![p] = "exit1"]
    /\ UNCHANGED <<mem, runs, roads_file, zones_file, lastGood>>
    /\ UNCHANGED <<lightVars, extractVars, appVars>>

-----------------------------------------------------------------------------
(* process.py run from the shell, again and again *)

ShellRun ==
    /\ runs < MaxCycles
    /\ Launch(1)
    /\ UNCHANGED <<roads_file, zones_file, lastGood>>
    /\ UNCHANGED <<lightVars, extractVars, appVars>>

ShellReturn ==
    /\ rpc[1] \in {"exit0", "exit1"}
    /\ rpc' = [rpc EXCEPT ![1] = "idle"]
    /\ mem' = [mem EXCEPT ![1] = <<>>]
    /\ UNCHANGED <<runs, roads_file, zones_file, lastGood>>
    /\ UNCHANGED <<lightVars, extractVars, appVars>>

ExtractDone ==
    /\ epc = "done"
    /\ road_rows = <<>>
    /\ roads_master = <<>>
    /\ num_cells = <<0, 0>>
    /\ bbox = <<0, 0, 0, 0>>
    /\ x_grid = <<>>
    /\ y_grid = <<>>
    /\ ij = <<0, 0>>
    /\ zones = <<>>
    /\ zones_proj = <<>>
    /\ roads_proj = <<>>

RefreshInit ==
    /\ ExtractDone
    /\ LightIdle
    /\ AppIdle
    /\ \E mr \in MasterRoadSets : master_files = <<mr, MasterZones>>
    /\ rpc = [p \in Launchers |-> "idle"]
    /\ mem = [p \in Launchers |-> <<>>]
    /\ runs = 0
    /\ roads_file = <<>>
    /\ zones_file = <<>>
    /\ lastGood = 0

NextRefresh ==
    \/ ShellRun
    \/ \E pred \in [1 .. Len(RefreshRoads) -> PredVals] : Compute(1, pred)
    \/ WriteRoads(1)
    \/ WriteZones(1)
    \/ Fail(1)
    \/ ShellReturn

SpecRefresh == RefreshInit /\ [][NextRefresh]_vars

-----------------------------------------------------------------------------
(* Claims about clipping and aggregation *)

Computed(p) == rpc[p] \in {"computed", "wrote_roads", "exit0", "exit1"} /\ "zones" \in DOMAIN mem[p]

RowsOf(rows, z) == {k \in 1 .. Len(rows) : rows[k].zone_id = z}

RECURSIVE SumOver(_, _)
SumOver(rows, ks) ==
    IF ks = {} THEN 0
    ELSE LET k == CHOOSE x \in ks : TRUE
         IN  rows[k].congestion + SumOver(rows, ks \ {k})

\* zone rows zs hold, per zone of the master zone set, the mean of the roads
\* rs assigned to it, and 0 for a zone without roads
MeansOf(zs, rs) ==
    /\ Len(zs) = Len(master_files[2])
    /\ \A k \in 1 .. Len(zs) :
        /\ zs[k].zone_id = master_files[2][k].zone_id
        /\ LET mine == RowsOf(rs, zs[k].zone_id)
           IN  IF mine = {} THEN zs[k].congestion = 0
               ELSE zs[k].congestion * Cardinality(mine) = SumOver(rs, mine) * MeanDen

\* C8: after aggregation every zone of the zone set holds the mean of the
\* roads assigned to it, or 0 when it has none; roads without a zone feed no
\* zone and add no zone row; the roads keep their congestion and zone_id.
C8_ZoneMean ==
    /\ \A p \in Launchers :
        Computed(p) =>
            /\ MeansOf(mem[p].zones, mem[p].roads)
            /\ Len(mem[p].roads) = Len(master_files[1])
            /\ \A k \in 1 .. Len(mem[p].roads) :
                /\ mem[p].roads[k].zone_id = master_files[1][k].zone_id
                /\ mem[p].roads[k].id = master_files[1][k].id
                /\ mem[p].roads[k].congestion
                       = SetMax({0, SetMin({CongScale, mem[p].pred[k]})})
    /\ (roads_file # <<>> /\ zones_file # <<>> /\ roads_file.run = zones_file.run)
           => MeansOf(zones_file.rows, roads_file.rows)

\* C8 witness: roads of congestion 0.2, 0.4 and 0.9 in z0_0 give it 0.5, and
\* the zones without roads hold 0.
C8_Witness ==
    /\ zones_file # <<>>
    /\ roads_file # <<>>
    /\ roads_file.run = zones_file.run
    /\ \A k \in 1 .. 3 : roads_file.rows[k].zone_id = zones_file.rows[1].zone_id
    /\ {roads_file.rows[k].congestion : k \in 1 .. 3} = {2, 4, CongScale - 1}
    /\ zones_file.rows[1].congestion * 3 = (2 + 4 + CongScale - 1) * MeanDen
    /\ zones_file.rows[2].congestion = 0

UnitRoads(rows) == \A k \in 1 .. Len(rows) : rows[k].congestion \in 0 .. CongScale
UnitZones(rows) == \A k \in 1 .. Len(rows) : rows[k].congestion \in 0 .. CongScale * MeanDen

-----------------------------------------------------------------------------
(* app.py: script runs of the sessions, cached load_data(), refresh        *)

Sessions == Launchers

\* what the model may return in the runs the app starts: with one session,
\* and (fewer cases) with two
SoloPreds ==
    [1 .. Len(RefreshRoads) -> {0 - 1, CongScale + 3}] \cup {<<2, 4, CongScale - 1>>}
AppPreds == { <<0 - 1, 4, CongScale + 3>>, <<4, 4, 4>> }

\* the prediction of the earlier, complete run of process.py (run 0) that
\* left the two tables the app starts with
Run0Pred == <<4, 4, 4>>

\* app.py:35-39: a table without a congestion column gets one of 0.0
with_congestion(rows) ==
    [k \in 1 .. Len(rows) |->
        IF "congestion" \in DOMAIN rows[k] THEN rows[k]
        ELSE [f \in DOMAIN rows[k] \cup {"congestion"} |->
                 IF f = "congestion" THEN 0 ELSE rows[k][f]]]

\* A script run starts: the session connects, or a widget event reruns the
\* script and ends the loop of the previous run.  click: the event is a
\* click on "Run Congestion Prediction".  app.py:44-47 and 54-56.
ScriptRun(s, click) ==
    /\ pc[s] \in {"new", "render"}
    /\ click => pc[s] = "render"
    /\ launched[s] + (IF loaded[s] THEN 0 ELSE 1) + (IF click THEN 1 ELSE 0) <= MaxLaunch
    /\ btn' = [btn EXCEPT ![s] = click]
    /\ status' = [status EXCEPT ![s] = "none"]
    /\ data' = [data EXCEPT ![s] = <<>>]
    /\ frame' = [frame EXCEPT ![s] = <<>>]
    /\ IF loaded[s]
       THEN /\ pc' = [pc EXCEPT ![s] = "load1"]
            /\ UNCHANGED <<rpc, mem, runs, launched>>
       ELSE /\ pc' = [pc EXCEPT ![s] = "first_pred"]
            /\ Launch(s)
            /\ launched' = [launched EXCEPT ![s] = @ + 1]
    /\ UNCHANGED <<loaded, rd, cache, lock, roads_file, zones_file, lastGood>>
    /\ UNCHANGED <<lightVars, extractVars>>

\* run_congestion_prediction returns (app.py:19-26) and its caller goes on:
\* app.py:48-52 on first load, app.py:64-68 after the button.
PredictionReturns(s) ==
    /\ pc[s] \in {"first_pred", "btn_pred"}
    /\ rpc[s] \in {"exit0", "exit1"}
    /\ LET success == rpc[s] = "exit0"
       IN  /\ status' = [status EXCEPT ![s] = IF success THEN "ok" ELSE "failed"]
           /\ IF pc[s] = "first_pred"
              THEN /\ loaded' = [loaded EXCEPT ![s] = success]
                   /\ pc' = [pc EXCEPT ![s] = "load1"]
              ELSE /\ UNCHANGED loaded
                   /\ pc' = [pc EXCEPT ![s] = IF success THEN "load2" ELSE "render"]
    /\ rpc' = [rpc EXCEPT ![s] = "idle"]
    /\ mem' = [mem EXCEPT ![s] = <<>>]
    /\ UNCHANGED <<btn, launched, data, rd, cache, lock, frame, runs,
                   roads_file, zones_file, lastGood>>
    /\ UNCHANGED <<lightVars, extractVars>>

AfterLoad(s) == IF pc[s] = "load1" THEN "button" ELSE "render"

\* load_data() with its entry in the cache (app.py:30): the entry comes
\* back and no file is read.
LoadHit(s) ==
    /\ pc[s] \in {"load1", "load2"}
    /\ cache # <<>>
    /\ data' = [data EXCEPT ![s] = cache]
    /\ pc' = [pc EXCEPT ![s] = AfterLoad(s)]
    /\ UNCHANGED <<btn, loaded, launched, status, rd, cache, lock, frame>>
    /\ UNCHANGED <<lightVars, extractVars, refreshVars>>

\* load_data() without an entry: one session at a time computes it.
\* app.py:32
LoadReadZones(s) ==
    /\ pc[s] \in {"load1", "load2"}
    /\ cache = <<>>
    /\ lock = 0
    /\ lock' = s
    /\ rd' = [rd EXCEPT ![s] = <<zones_file>>]
    /\ UNCHANGED <<pc, btn, loaded, launched, status, data, cache, frame>>
    /\ UNCHANGED <<lightVars, extractVars, refreshVars>>

\* app.py:33-41, and the result goes into the cache
LoadReadRoads(s) ==
    /\ lock = s
    /\ LET zones_gdf == [rd[s][1] EXCEPT !.rows = with_congestion(@)]
           roads_gdf == [roads_file EXCEPT !.rows = with_congestion(@)]
           result == [zones |-> zones_gdf, roads |-> roads_gdf]
       IN  /\ data' = [data EXCEPT ![s] = result]
           /\ cache' = result
    /\ lock' = 0
    /\ rd' = [rd EXCEPT ![s] = <<>>]
    /\ pc' = [pc EXCEPT ![s] = AfterLoad(s)]
    /\ UNCHANGED <<btn, loaded, launched, status, frame>>
    /\ UNCHANGED <<lightVars, extractVars, refreshVars>>

\* app.py:60-63: the button is true in the script run its click started.
ButtonCheck(s) ==
    /\ pc[s] = "button"
    /\ IF btn[s]
       THEN /\ pc' = [pc EXCEPT ![s] = "btn_pred"]
            /\ Launch(s)
            /\ launched' = [launched EXCEPT ![s] = @ + 1]
       ELSE /\ pc' = [pc EXCEPT ![s] = "render"]
            /\ UNCHANGED <<rpc, mem, runs, launched>>
    /\ UNCHANGED <<btn, loaded, status, data, rd, cache, lock, frame,
                   roads_file, zones_file, lastGood>>
    /\ UNCHANGED <<lightVars, extractVars>>

\* One pass of the loop, app.py:207-238: the layers are built from
\* zones_gdf and roads_gdf of this script run and shown.
ShowFrame(s) ==
    /\ pc[s] = "render"
    /\ frame' = [frame EXCEPT ![s] = <<data[s].roads.run, data[s].zones.run>>]
    /\ UNCHANGED <<pc, btn, loaded, launched, status, data, rd, cache, lock>>
    /\ UNCHANGED <<lightVars, extractVars, refreshVars>>

AppStart(masters) ==
    /\ ExtractDone
    /\ LightIdle
    /\ \E mr \in masters :
        /\ master_files = <<mr, MasterZones>>
        /\ roads_file = [run |-> 0, rows |-> score(mr, Run0Pred)]
        /\ zones_file = [run |-> 0, rows |-> aggregate(score(mr, Run0Pred), MasterZones)]
    /\ rpc = [p \in Launchers |-> "idle"]
    /\ mem = [p \in Launchers |-> <<>>]
    /\ runs = 0
    /\ lastGood = 0
    /\ pc = [s \in Sessions |-> "new"]
    /\ btn = [s \in Sessions |-> FALSE]
    /\ loaded = [s \in Sessions |-> FALSE]
    /\ launched = [s \in Sessions |-> 0]
    /\ status = [s \in Sessions |-> "none"]
    /\ data = [s \in Sessions |-> <<>>]
    /\ rd = [s \in Sessions |-> <<>>]
    /\ cache = <<>>
    /\ lock = 0
    /\ frame = [s \in Sessions |-> <<>>]

SessionStep(s, preds) ==
    \/ \E click \in BOOLEAN : ScriptRun(s, click)
    \/ \E pred \in preds : Compute(s, pred)
    \/ WriteRoads(s)
    \/ WriteZones(s)
    \/ Fail(s)
    \/ PredictionReturns(s)
    \/ LoadHit(s)
    \/ LoadReadZones(s)
    \/ LoadReadRoads(s)
    \/ ButtonCheck(s)
    \/ ShowFrame(s)

\* One server with one browser session.
SoloInit == AppStart(MasterRoadSets)

NextSolo == SessionStep(1, SoloPreds)

SpecSolo == SoloInit /\ [][NextSolo]_vars

\* One server with two browser sessions.
Init ==
    AppStart({mr \in MasterRoadSets : mr[2].zone_id = None /\ mr[3].zone_id = ZoneId(0, 1)})

Next == \E s \in Sessions : SessionStep(s, AppPreds)

Spec == Init /\ [][Next]_vars

-----------------------------------------------------------------------------
(* Claims about refresh and the render loop *)

\* C3: whenever the session's latest prediction failed, the frames it shows
\* are built from the road and zone values of the latest run of process.py
\* that completed.
C3_FailureKeepsLastGood ==
    \A s \in Sessions :
        (frame[s] # <<>> /\ status[s] = "failed") => frame[s] = <<lastGood, lastGood>>

\* C4: the reader never holds a pair of tables (roads, zones) written by two
\* different runs of process.py.
C4_NoMixedSnapshot ==
    \A s \in Sessions :
        data[s] # <<>> => data[s].roads.run = data[s].zones.run

\* C5: once the session's prediction completed, the frames it shows are
\* built from the values that latest completed run wrote.
C5_FreshAfterSuccess ==
    \A s \in Sessions :
        (frame[s] # <<>> /\ status[s] = "ok") => frame[s] = <<lastGood, lastGood>>

\* C9: every stored, loaded and rendered road and zone congestion lies in
\* [0, 1]; a prediction below 0 is stored as 0 and one above 1 as 1.
C9_UnitInterval ==
    /\ \A p \in Launchers :
        Computed(p) =>
            /\ UnitRoads(mem[p].roads)
            /\ UnitZones(mem[p].zones)
            /\ \A k \in 1 .. Len(mem[p].roads) :
                /\ mem[p].pred[k] < 0 => mem[p].roads[k].congestion = 0
                /\ mem[p].pred[k] > CongScale => mem[p].roads[k].congestion = CongScale
    /\ UnitRoads(roads_file.rows)
    /\ UnitZones(zones_file.rows)
    /\ \A s \in Sessions :
        /\ data[s] # <<>> => UnitRoads(data[s].roads.rows) /\ UnitZones(data[s].zones.rows)
        /\ rd[s] # <<>> => UnitZones(rd[s][1].rows)
    /\ cache # <<>> => UnitRoads(cache.roads.rows) /\ UnitZones(cache.zones.rows)

\* C9 witness: after two prediction cycles a frame is shown from roads
\* whose predictions of -0.1 and 1.3 were stored as 0 and 1.
C9_Witness ==
    /\ lastGood = 2
    /\ frame[1] # <<>>
    /\ data[1].roads.run > 0
    /\ data[1].roads.rows[1].congestion = 0
    /\ data[1].roads.rows[2].congestion = CongScale
    /\ roads_file.run = 2
    /\ roads_file.rows[3].congestion = CongScale

-----------------------------------------------------------------------------
(* app.py: phase offset and light state *)

Runs == {1, 2}              \* app processes (separate interpreters)
NoHash == <<>>              \* the process has not started yet
CongVals == 0 .. CongScale
HashVals == (0 - HashBound) .. (HashBound - 1)

\* Python's % with a positive modulus: the result has the sign of the modulus.
PyMod(a, m) == a % m

\* app.py:124-125.  hash(road_id) of a str is keyed by the interpreter's
\* hash seed, so h is the value this process drew for road_id at start-up.
phase_offset(h) == PyMod(h, cycle_length)

\* congestion > num/ThreshDen, for congestion = c / CongScale
Above(c, num) == c * ThreshDen > num * CongScale

simulate_traffic_light_SwapYG(congestion, t, offset) ==
    LET pos_in_cycle == (t + offset) % cycle_length
    IN  IF Above(congestion, HighNum)
        THEN IF pos_in_cycle < 8 THEN "red"
             ELSE IF pos_in_cycle < 10 THEN "yellow" ELSE "green"
        ELSE IF Above(congestion, LowNum)
        THEN IF pos_in_cycle < 5 THEN "red"
             ELSE IF pos_in_cycle < 7 THEN "green" ELSE "yellow"
        ELSE IF pos_in_cycle < 3 THEN "red"
             ELSE IF pos_in_cycle < 5 THEN "yellow" ELSE "green"

simulate_traffic_light_Le8(congestion, t, offset) ==
    LET pos_in_cycle == (t + offset) % cycle_length
    IN  IF Above(congestion, HighNum)
        THEN IF pos_in_cycle <= 8 THEN "red"
             ELSE IF pos_in_cycle < 10 THEN "yellow" ELSE "green"
        ELSE IF Above(congestion, LowNum)
        THEN IF pos_in_cycle < 5 THEN "red"
             ELSE IF pos_in_cycle < 7 THEN "yellow" ELSE "green"
        ELSE IF pos_in_cycle < 3 THEN "red"
             ELSE IF pos_in_cycle < 5 THEN "yellow" ELSE "green"

\* app.py:128-151
simulate_traffic_light(congestion, t, offset) ==
    LET pos_in_cycle == (t + offset) % cycle_length
    IN  IF Above(congestion, HighNum)
        THEN IF pos_in_cycle < 8 THEN "red"
             ELSE IF pos_in_cycle < 10 THEN "yellow" ELSE "green"
        ELSE IF Above(congestion, LowNum)
        THEN IF pos_in_cycle < 5 THEN "red"
             ELSE IF pos_in_cycle < 7 THEN "yellow" ELSE "green"
        ELSE IF pos_in_cycle < 3 THEN "red"
             ELSE IF pos_in_cycle < 5 THEN "yellow" ELSE "green"

\* Start of an app process: the interpreter draws its hash seed, which fixes
\* hash() of every str for the life of the process; tick = 0 (app.py:196).
StartProcess(r) ==
    /\ strHash[r] = NoHash
    /\ \E h \in HashVals : strHash' = [strHash EXCEPT ![r] = <<h>>]
    /\ UNCHANGED <<rowId, rowCong, tick, hist>>
    /\ UNCHANGED <<extractVars, refreshVars, appVars>>

\* One iteration of the loop, app.py:207-238, for the road row:
\* build_road_layer(tick) (app.py:161-167), display, tick += 1.
RenderTick(r, limit) ==
    /\ strHash[r] # NoHash
    /\ tick[r] < limit
    /\ LET offset == phase_offset(strHash[r][1])
           state == simulate_traffic_light(rowCong, tick[r], offset)
       IN  hist' = [hist EXCEPT ![r] = Append(@, state)]
    /\ tick' = [tick EXCEPT ![r] = @ + 1]
    /\ UNCHANGED <<rowId, rowCong, strHash>>
    /\ UNCHANGED <<extractVars, refreshVars, appVars>>

LightInit ==
    /\ ExtractIdle
    /\ RefreshIdle
    /\ rowId \in RowIds
    /\ rowCong \in CongVals
    /\ strHash = [r \in Runs |-> NoHash]
    /\ tick = [r \in Runs |-> 0]
    /\ hist = [r \in Runs |-> <<>>]

\* One app process and its render loop.
NextLight ==
    \/ StartProcess(1)
    \/ RenderTick(1, MaxTick)

SpecLight == LightInit /\ [][NextLight]_vars

\* Two app processes over the same road data.
NextRuns ==
    \/ \E r \in Runs : StartProcess(r)
    \/ \E r \in Runs : RenderTick(r, MaxRunTick)

SpecRuns == LightInit /\ [][NextRuns]_vars

-----------------------------------------------------------------------------
(* Claims about the light state *)

Band(c) ==
    IF c * 10 > 7 * CongScale THEN "high"
    ELSE IF c * 10 > 3 * CongScale THEN "medium" ELSE "low"

RedRange(b) == CASE b = "high" -> 0 .. 7 [] b = "medium" -> 0 .. 4 [] OTHER -> 0 .. 2
YellowRange(b) == CASE b = "high" -> 8 .. 9 [] b = "medium" -> 5 .. 6 [] OTHER -> 3 .. 4
GreenRange(b) == CASE b = "high" -> 10 .. 11 [] b = "medium" -> 7 .. 11 [] OTHER -> 5 .. 11

TableState(c, pos) ==
    CHOOSE s \in {"red", "yellow", "green"} :
        \/ s = "red" /\ pos \in RedRange(Band(c))
        \/ s = "yellow" /\ pos \in YellowRange(Band(c))
        \/ s = "green" /\ pos \in GreenRange(Band(c))

\* C1: every rendered light state is the band table's entry at position
\* (tick + offset) mod 12, with congestion 0.7 in the medium band and 0.3 in
\* the low band.
C1_BandTable ==
    \A r \in Runs : \A k \in 1 .. Len(hist[r]) :
        hist[r][k] = TableState(rowCong, (k - 1 + phase_offset(strHash[r][1])) % 12)

\* C1 witness: congestion exactly 0.7 rendered at position 5 is yellow (the
\* medium band; the high band would still be red there).
C1_Witness ==
    /\ rowCong * 10 = 7 * CongScale
    /\ strHash[1] # NoHash
    /\ Len(hist[1]) >= 1
    /\ (Len(hist[1]) - 1 + phase_offset(strHash[1][1])) % 12 = 5
    /\ hist[1][Len(hist[1])] = "yellow"

Step(a, b) ==
    \/ a = b
    \/ a = "red" /\ b = "yellow"
    \/ a = "yellow" /\ b = "green"
    \/ a = "green" /\ b = "red"

\* C10: tick counts the iterations from 0; consecutive states stay or move
\* red -> yellow -> green -> red; the state repeats after 12 ticks; every
\* window of 12 ticks holds a green.
C10_Cycle ==
    \A r \in Runs :
        /\ tick[r] = Len(hist[r])
        /\ \A k \in 1 .. Len(hist[r]) - 1 : Step(hist[r][k], hist[r][k + 1])
        /\ \A k \in 1 .. Len(hist[r]) - 12 : hist[r][k + 12] = hist[r][k]
        /\ \A k \in 1 .. Len(hist[r]) - 11 :
               \E m \in k .. k + 11 : hist[r][m] = "green"

\* C10 witness: a loop that has shown green, then red, and green again more
\* than 12 ticks in.
C10_Witness ==
    /\ Len(hist[1]) > 13
    /\ hist[1][Len(hist[1])] = "green"
    /\ \E k \in 2 .. Len(hist[1]) - 1 : hist[1][k - 1] = "green" /\ hist[1][k] = "red"

\* C2: two app processes compute the same phase offset for the same road id
\* (and so the same light state at the same tick).
C2_SameOffsetAcrossRuns ==
    (strHash[1] # NoHash /\ strHash[2] # NoHash)
        => /\ phase_offset(strHash[1][1]) = phase_offset(strHash[2][1])
           /\ \A k \in 1 .. Len(hist[1]) :
                  k <= Len(hist[2]) => hist[1][k] = hist[2][k]

=============================================================================
